---- MODULE Spec2Model ----
(***************************************************************************)
(* AdaptiveHeightStrategy (src/index.ts): the virtual-scroll strategy that *)
(* computes, for a list of variable-sized items, the rendered index range, *)
(* the content offset and the first visible index, and drives a            *)
(* CdkVirtualScrollViewport through its narrow contract.                   *)
(*                                                                         *)
(* Pixels are small integers.  The viewport is the external collaborator:  *)
(* its measurements (scroll offset, size, data length, rendered range) are *)
(* variables the strategy reads; the commands the strategy issues are      *)
(* logged in order, and setRenderedRange is also stored for the next       *)
(* getRenderedRange.  One observer is subscribed to scrolledIndexChange    *)
(* from construction on.                                                   *)
(***************************************************************************)
EXTENDS Integers, Sequences, FiniteSets, TLC

\* ---------------------------------------------------------------- bounds
\* Longest item collection, largest scroll offset and largest buffer threshold
\* of the range specification (SpecRange).
MaxLen == 3
MaxScroll == 4
MaxBuf == 1
\* The same for the specification of the whole strategy (Spec).
SmallLen == 1
SmallScroll == 1
SmallBuf == 0

\* Largest offset of a direct index-from-offset query (SpecQuery).
MaxQuery == 10

\* Longest item collection of the settling specification (SpecSettle), and the
\* size of its large items.
SettleLen == 4
SettleSize == 4

\* Opaque item values; the strategy looks at them through the size function only.
ItemValues == {1, 3}
\* The size functions a host may bind: "unit" gives every item one pixel,
\* "value" gives an item its own value in pixels (heterogeneous sizes).
SizeFns == {"unit", "value"}
ListsUpTo(maxLen) == UNION {[1..n -> ItemValues] : n \in 0..maxLen}
ItemLists == ListsUpTo(MaxLen)
SmallLists == ListsUpTo(SmallLen)
\* Collections that also hold zero-size items, and offsets from below zero to
\* beyond every total size, for the direct queries.
QueryLists == UNION {[1..n -> ItemValues \cup {0}] : n \in 0..MaxLen}
QueryOffsets == -2..MaxQuery
\* Collections of small and large items for the settling specification.
SettleLists == UNION {[1..n -> {1, SettleSize}] : n \in 0..SettleLen}
ViewportSizes == {1, 2}
Behaviors == {"auto", "smooth"}

VARIABLES
    _viewport,              \* "null" or "viewport": the attached viewport
    _itemSizeFn,            \* the size function, by name
    _items,                 \* the item collection
    _minBufferPx,
    _maxBufferPx,
    isStopped,              \* _scrolledIndexChange has completed
    lastKey,                \* distinctUntilChanged's memory: <<>> or <<value>>
    scrollOffset,           \* viewport.measureScrollOffset()
    viewportSize,           \* viewport.getViewportSize()
    dataLength,             \* viewport.getDataLength()
    renderedRange,          \* viewport.getRenderedRange()
    lastOp,                 \* the operation that ran last, and whether it threw
    calls,                  \* what the last operation called, in order: viewport
                            \* commands and _scrolledIndexChange.next
    delivered,              \* index values the observer received from it
    probe                   \* offset and result of a direct index-from-offset query

vars == <<_viewport, _itemSizeFn, _items, _minBufferPx, _maxBufferPx, isStopped,
          lastKey, scrollOffset, viewportSize, dataLength, renderedRange,
          lastOp, calls, delivered, probe>>

strategyVars == <<_itemSizeFn, _items, _minBufferPx, _maxBufferPx>>

\* ---------------------------------------------------------------- helpers
Max(a, b) == IF a >= b THEN a ELSE b
Min(a, b) == IF a <= b THEN a ELSE b

\* (data: unknown) => number, the bound size function.
ItemSizeFn(fn, item) == IF fn = "unit" THEN 1 ELSE item

\* Array.prototype.slice(0, k): k beyond the length gives the whole array, a
\* negative k counts from the end.
Slice(items, k) ==
    LET n == Len(items)
        e == IF k < 0 THEN Max(0, n + k) ELSE Min(k, n)
    IN  SubSeq(items, 1, e)

\* _getItemSize: data.reduce((acc, curr) => itemSizeFn(curr) + acc, 0)
RECURSIVE GetItemSize(_, _)
GetItemSize(fn, data) ==
    IF data = <<>> THEN 0
    ELSE ItemSizeFn(fn, data[Len(data)]) + GetItemSize(fn, SubSeq(data, 1, Len(data) - 1))

\* The walk with the comparison slipped to acc >= offset.
RECURSIVE WalkStopsAtOffset(_, _, _, _, _, _)
WalkStopsAtOffset(fn, items, offset, i, acc, ind) ==
    IF i > Len(items) THEN ind
    ELSE IF acc >= offset THEN WalkStopsAtOffset(fn, items, offset, i + 1, acc, ind)
    ELSE WalkStopsAtOffset(fn, items, offset, i + 1,
                           acc + ItemSizeFn(fn, items[i]), ind + 1)

\* The walk with the test made after the addition: an element is counted only
\* when the accumulator, with it, still does not exceed the offset.
RECURSIVE WalkChecksAfterAdding(_, _, _, _, _, _)
WalkChecksAfterAdding(fn, items, offset, i, acc, ind) ==
    IF i > Len(items) THEN ind
    ELSE IF acc + ItemSizeFn(fn, items[i]) > offset THEN ind
    ELSE WalkChecksAfterAdding(fn, items, offset, i + 1,
                               acc + ItemSizeFn(fn, items[i]), ind + 1)

\* The forEach of _getFirstVisibleIndex from element i on: an element is
\* skipped once acc > offset, otherwise its size is added and ind is bumped.
RECURSIVE Walk(_, _, _, _, _, _)
Walk(fn, items, offset, i, acc, ind) ==
    IF i > Len(items) THEN ind
    ELSE IF acc > offset THEN Walk(fn, items, offset, i + 1, acc, ind)
    ELSE Walk(fn, items, offset, i + 1, acc + ItemSizeFn(fn, items[i]), ind + 1)

\* _getFirstVisibleIndex(offset)
GetFirstVisibleIndex(fn, items, offset) == Walk(fn, items, offset, 1, 0, 0)

\* A viewport command, as the viewport receives it.
Cmd(name, a, b, behavior) == [cmd |-> name, a |-> a, b |-> b, behavior |-> behavior]

\* The state after construction, but for the constructor's arguments.
Fresh ==
    /\ _viewport = "null"
    /\ isStopped = FALSE
    /\ lastKey = <<>>
    /\ scrollOffset = 0
    /\ dataLength = 0
    /\ renderedRange = [start |-> 0, end |-> 0]
    /\ lastOp = [name |-> "constructor", threw |-> FALSE]
    /\ calls = <<>>
    /\ delivered = <<>>
    /\ probe = [offset |-> 0, result |-> 0]

\* constructor(itemSizeFn, items, minBufferPx, maxBufferPx): stores its
\* arguments as given, whatever they are.
Init ==
    /\ Fresh
    /\ viewportSize = 1
    /\ _itemSizeFn \in SizeFns
    /\ _items \in SmallLists
    /\ _minBufferPx \in -1..SmallBuf
    /\ _maxBufferPx \in -1..SmallBuf

\* Construction as CdkReactiveSizeVirtualScroll does it: an empty collection
\* and thresholds with maxBufferPx >= minBufferPx >= 0.
InitRange ==
    /\ Fresh
    /\ viewportSize \in ViewportSizes
    /\ _itemSizeFn = "value"
    /\ _items = <<>>
    /\ _minBufferPx \in 0..MaxBuf
    /\ _maxBufferPx \in _minBufferPx..MaxBuf

\* ---------------------------------------------------------------- recomputation
\* startBuffer of _updateRenderedRange for a range starting at start.
StartBuffer(fn, items, so, start) == so - GetItemSize(fn, Slice(items, start))

\* endBuffer of _updateRenderedRange for a range ending at end.
EndBuffer(fn, items, so, vs, end) == GetItemSize(fn, Slice(items, end)) - (so + vs)

\* The condition of the start-side branch.
StartBranch(fn, items, minPx, so, rr) ==
    StartBuffer(fn, items, so, rr.start) < minPx /\ rr.start # 0

\* The end-side condition without its test of the data boundary.
EndBranchNoBoundary(fn, items, minPx, so, vs, dl, rr) ==
    EndBuffer(fn, items, so, vs, rr.end) < minPx

\* The condition of the end-side branch, tried when the start side is not taken.
EndBranch(fn, items, minPx, so, vs, dl, rr) ==
    EndBuffer(fn, items, so, vs, rr.end) < minPx /\ rr.end # dl

\* The range with the end-side branch forgetting the minimum buffer before
\* the first visible index: start is pulled forward to firstVisibleIndex.
NewRangeStartAtFirstVisible(fn, items, minPx, maxPx, so, vs, dl, rr) ==
    LET firstVisibleIndex == GetFirstVisibleIndex(fn, items, so)
        startBuffer == StartBuffer(fn, items, so, rr.start)
        endBuffer == EndBuffer(fn, items, so, vs, rr.end)
        expandStart == GetFirstVisibleIndex(fn, items, maxPx - startBuffer)
        expandEnd == GetFirstVisibleIndex(fn, items, maxPx - endBuffer)
    IN  IF StartBranch(fn, items, minPx, so, rr)
        THEN [start |-> Max(0, rr.start - expandStart),
              end |-> Min(dl, firstVisibleIndex
                              + GetFirstVisibleIndex(fn, items, vs + minPx))]
        ELSE IF EndBranch(fn, items, minPx, so, vs, dl, rr) /\ expandEnd > 0
        THEN [start |-> Max(0, firstVisibleIndex),
              end |-> Min(dl, rr.end + expandEnd)]
        ELSE rr

\* The range with the two branches in sequence instead of if / else: the
\* end-side branch also runs on what the start-side branch produced.
NewRangeBothBranches(fn, items, minPx, maxPx, so, vs, dl, rr) ==
    LET firstVisibleIndex == GetFirstVisibleIndex(fn, items, so)
        startBuffer == StartBuffer(fn, items, so, rr.start)
        expandStart == GetFirstVisibleIndex(fn, items, maxPx - startBuffer)
        r1 == IF StartBranch(fn, items, minPx, so, rr)
              THEN [start |-> Max(0, rr.start - expandStart),
                    end |-> Min(dl, firstVisibleIndex
                                    + GetFirstVisibleIndex(fn, items, vs + minPx))]
              ELSE rr
        endBuffer == EndBuffer(fn, items, so, vs, r1.end)
        expandEnd == GetFirstVisibleIndex(fn, items, maxPx - endBuffer)
    IN  IF EndBranch(fn, items, minPx, so, vs, dl, r1) /\ expandEnd > 0
        THEN [start |-> Max(0, firstVisibleIndex
                               - GetFirstVisibleIndex(fn, items, minPx)),
              end |-> Min(dl, r1.end + expandEnd)]
        ELSE r1

\* The range _updateRenderedRange commits, from what it reads (Math.ceil of
\* an element count is that count).
NewRange(fn, items, minPx, maxPx, so, vs, dl, rr) ==
    LET firstVisibleIndex == GetFirstVisibleIndex(fn, items, so)
        startBuffer == StartBuffer(fn, items, so, rr.start)
        endBuffer == EndBuffer(fn, items, so, vs, rr.end)
        expandStart == GetFirstVisibleIndex(fn, items, maxPx - startBuffer)
        expandEnd == GetFirstVisibleIndex(fn, items, maxPx - endBuffer)
    IN  IF StartBranch(fn, items, minPx, so, rr)
        THEN [start |-> Max(0, rr.start - expandStart),
              end |-> Min(dl, firstVisibleIndex
                              + GetFirstVisibleIndex(fn, items, vs + minPx))]
        ELSE IF EndBranch(fn, items, minPx, so, vs, dl, rr) /\ expandEnd > 0
        THEN [start |-> Max(0, firstVisibleIndex
                               - GetFirstVisibleIndex(fn, items, minPx)),
              end |-> Min(dl, rr.end + expandEnd)]
        ELSE rr

\* The pipe without its distinctUntilChanged(): every value passes.
NoDistinctUntilChanged(key, v) == TRUE

\* distinctUntilChanged(): a value passes when it is the first or differs from
\* the last one passed.
DistinctUntilChanged(key, v) == key = <<>> \/ key[1] # v

\* _scrolledIndexChange.next(v), seen through scrolledIndexChange: a completed
\* Subject drops the value, the pipe drops a repeat.
Publish(v) ==
    IF ~isStopped /\ DistinctUntilChanged(lastKey, v)
    THEN delivered' = <<v>> /\ lastKey' = <<v>>
    ELSE delivered' = <<>> /\ lastKey' = lastKey

\* _updateTotalContentSize(), as the commands it issues with viewport vp.
UpdateTotalContentSizeCalls(vp, fn, items) ==
    IF vp = "null" THEN <<>>
    ELSE <<Cmd("setTotalContentSize", GetItemSize(fn, items), 0, "")>>

\* The commit with the content offset taken from the start of the range read
\* instead of the start of the range committed.
CommitOffsetOfOldStart(total, fn, items, minPx, maxPx, so, dl) ==
    LET nr == NewRange(fn, items, minPx, maxPx, so, viewportSize, dl, renderedRange)
        fvi == GetFirstVisibleIndex(fn, items, so)
    IN  /\ renderedRange' = nr
        /\ calls' = total \o
              <<Cmd("setRenderedRange", nr.start, nr.end, ""),
                Cmd("setRenderedContentOffset",
                    GetItemSize(fn, Slice(items, renderedRange.start)), 0, ""),
                Cmd("next", fvi, 0, "")>>
        /\ Publish(fvi)

\* _updateRenderedRange() past its viewport check, after the commands in
\* total: it commits the new range and its content offset and publishes the
\* first visible index (Math.floor of an element count is that count).
Commit(total, fn, items, minPx, maxPx, so, dl) ==
    LET nr == NewRange(fn, items, minPx, maxPx, so, viewportSize, dl, renderedRange)
        fvi == GetFirstVisibleIndex(fn, items, so)
    IN  /\ renderedRange' = nr
        /\ calls' = total \o
              <<Cmd("setRenderedRange", nr.start, nr.end, ""),
                Cmd("setRenderedContentOffset", GetItemSize(fn, Slice(items, nr.start)),
                    0, ""),
                Cmd("next", fvi, 0, "")>>
        /\ Publish(fvi)

\* The recomputation with both viewport checks missing.
RecomputeUnchecked(withTotal, vp, fn, items, minPx, maxPx, so, dl) ==
    Commit(IF withTotal THEN UpdateTotalContentSizeCalls("viewport", fn, items) ELSE <<>>,
           fn, items, minPx, maxPx, so, dl)

\* _updateTotalContentSize() followed by _updateRenderedRange(), or the latter
\* alone (withTotal = FALSE), run with viewport vp, items, thresholds, scroll
\* offset so and data length dl.
Recompute(withTotal, vp, fn, items, minPx, maxPx, so, dl) ==
    IF vp = "null"
    THEN /\ calls' = <<>>
         /\ delivered' = <<>>
         /\ UNCHANGED <<renderedRange, lastKey>>
    ELSE Commit(IF withTotal THEN UpdateTotalContentSizeCalls(vp, fn, items) ELSE <<>>,
                fn, items, minPx, maxPx, so, dl)

\* ---------------------------------------------------------------- operations
\* attach(viewport), called by a viewport the strategy is not attached to
\* (attaching twice without a detach in between is the caller's error).
Attach ==
    /\ _viewport = "null"
    /\ _viewport' = "viewport"
    /\ Recompute(TRUE, "viewport", _itemSizeFn, _items, _minBufferPx, _maxBufferPx,
                 scrollOffset, dataLength)
    /\ lastOp' = [name |-> "attach", threw |-> FALSE]
    /\ UNCHANGED <<strategyVars, isStopped, scrollOffset, viewportSize, dataLength, probe>>

\* detach()
Detach ==
    /\ isStopped' = TRUE
    /\ _viewport' = "null"
    /\ calls' = <<>>
    /\ delivered' = <<>>
    /\ lastOp' = [name |-> "detach", threw |-> FALSE]
    /\ UNCHANGED <<strategyVars, lastKey, scrollOffset, viewportSize, dataLength,
                   renderedRange, probe>>

\* The update with its check moved behind the assignments.
UpdateThenValidate(fn, items, minPx, maxPx) ==
    /\ _items' = items
    /\ _itemSizeFn' = fn
    /\ _minBufferPx' = minPx
    /\ _maxBufferPx' = maxPx
    /\ IF maxPx < minPx
       THEN /\ lastOp' = [name |-> "updateItemAndBufferSize", threw |-> TRUE]
            /\ calls' = <<>>
            /\ delivered' = <<>>
            /\ UNCHANGED <<renderedRange, lastKey>>
       ELSE /\ Recompute(TRUE, _viewport, fn, items, minPx, maxPx, scrollOffset,
                         dataLength)
            /\ lastOp' = [name |-> "updateItemAndBufferSize", threw |-> FALSE]
    /\ UNCHANGED <<_viewport, isStopped, scrollOffset, viewportSize, dataLength, probe>>

\* updateItemAndBufferSize(itemSizeFn, items, minBufferPx, maxBufferPx)
UpdateItemAndBufferSize(fn, items, minPx, maxPx) ==
    IF maxPx < minPx
    THEN /\ lastOp' = [name |-> "updateItemAndBufferSize", threw |-> TRUE]
         /\ calls' = <<>>
         /\ delivered' = <<>>
         /\ UNCHANGED <<_viewport, strategyVars, isStopped, lastKey, scrollOffset,
                        viewportSize, dataLength, renderedRange, probe>>
    ELSE /\ _items' = items
         /\ _itemSizeFn' = fn
         /\ _minBufferPx' = minPx
         /\ _maxBufferPx' = maxPx
         /\ Recompute(TRUE, _viewport, fn, items, minPx, maxPx, scrollOffset, dataLength)
         /\ lastOp' = [name |-> "updateItemAndBufferSize", threw |-> FALSE]
         /\ UNCHANGED <<_viewport, isStopped, scrollOffset, viewportSize, dataLength, probe>>

\* onContentScrolled(), called by the viewport once its scroll offset is so.
OnContentScrolled(so) ==
    /\ scrollOffset' = so
    /\ Recompute(FALSE, _viewport, _itemSizeFn, _items, _minBufferPx, _maxBufferPx,
                 so, dataLength)
    /\ lastOp' = [name |-> "onContentScrolled", threw |-> FALSE]
    /\ UNCHANGED <<_viewport, strategyVars, isStopped, viewportSize, dataLength, probe>>

\* onDataLengthChanged(), called by the viewport once its data source, the
\* collection bound to [items], has delivered its new length.
OnDataLengthChanged ==
    /\ dataLength' = Len(_items)
    /\ Recompute(TRUE, _viewport, _itemSizeFn, _items, _minBufferPx, _maxBufferPx,
                 scrollOffset, Len(_items))
    /\ lastOp' = [name |-> "onDataLengthChanged", threw |-> FALSE]
    /\ UNCHANGED <<_viewport, strategyVars, isStopped, scrollOffset, viewportSize, probe>>

\* onContentRendered()
OnContentRendered ==
    /\ calls' = <<>>
    /\ delivered' = <<>>
    /\ lastOp' = [name |-> "onContentRendered", threw |-> FALSE]
    /\ UNCHANGED <<_viewport, strategyVars, isStopped, lastKey, scrollOffset,
                   viewportSize, dataLength, renderedRange, probe>>

\* onRenderedOffsetChanged()
OnRenderedOffsetChanged ==
    /\ calls' = <<>>
    /\ delivered' = <<>>
    /\ lastOp' = [name |-> "onRenderedOffsetChanged", threw |-> FALSE]
    /\ UNCHANGED <<_viewport, strategyVars, isStopped, lastKey, scrollOffset,
                   viewportSize, dataLength, renderedRange, probe>>

\* scrollToIndex with the slice taken up to and including index.
ScrollToIndexInclusive(index, behavior) ==
    /\ calls' = IF _viewport # "null"
                THEN <<Cmd("scrollToOffset",
                           GetItemSize(_itemSizeFn, Slice(_items, index + 1)), 0, behavior)>>
                ELSE <<>>
    /\ delivered' = <<>>
    /\ lastOp' = [name |-> "scrollToIndex", threw |-> FALSE]
    /\ UNCHANGED <<_viewport, strategyVars, isStopped, lastKey, scrollOffset,
                   viewportSize, dataLength, renderedRange, probe>>

\* scrollToIndex(index, behavior)
ScrollToIndex(index, behavior) ==
    /\ calls' = IF _viewport # "null"
                THEN <<Cmd("scrollToOffset",
                           GetItemSize(_itemSizeFn, Slice(_items, index)), 0, behavior)>>
                ELSE <<>>
    /\ delivered' = <<>>
    /\ lastOp' = [name |-> "scrollToIndex", threw |-> FALSE]
    /\ UNCHANGED <<_viewport, strategyVars, isStopped, lastKey, scrollOffset,
                   viewportSize, dataLength, renderedRange, probe>>

Next ==
    \/ Attach
    \/ Detach
    \/ \E fn \in SizeFns, items \in SmallLists,
          minPx \in -1..SmallBuf, maxPx \in -1..SmallBuf :
          UpdateItemAndBufferSize(fn, items, minPx, maxPx)
    \/ \E so \in 0..SmallScroll : OnContentScrolled(so)
    \/ OnDataLengthChanged
    \/ OnContentRendered
    \/ OnRenderedOffsetChanged
    \/ \E index \in 0..SmallLen, behavior \in Behaviors : ScrollToIndex(index, behavior)

\* The whole strategy: every operation, in any order, on short collections.
Spec == Init /\ [][Next]_vars

\* The operations that recompute the rendered range, on longer collections
\* and with thresholds the host keeps valid; the host rebinds the collection
\* or the thresholds, one at a time.
NextRange ==
    \/ Attach
    \/ \E items \in ItemLists :
          UpdateItemAndBufferSize("value", items, _minBufferPx, _maxBufferPx)
    \/ \E minPx \in 0..MaxBuf : \E maxPx \in minPx..MaxBuf :
          UpdateItemAndBufferSize("value", _items, minPx, maxPx)
    \/ \E so \in 0..MaxScroll : OnContentScrolled(so)
    \/ OnDataLengthChanged

SpecRange == InitRange /\ [][NextRange]_vars

\* _getFirstVisibleIndex(offset) asked directly, on the collection and size
\* function the strategy holds.
Query(offset) ==
    /\ probe' = [offset |-> offset,
                 result |-> GetFirstVisibleIndex(_itemSizeFn, _items, offset)]
    /\ lastOp' = [name |-> "_getFirstVisibleIndex", threw |-> FALSE]
    /\ calls' = <<>>
    /\ delivered' = <<>>
    /\ UNCHANGED <<_viewport, strategyVars, isStopped, lastKey, scrollOffset,
                   viewportSize, dataLength, renderedRange>>

InitQuery ==
    /\ Fresh
    /\ viewportSize = 1
    /\ _itemSizeFn \in SizeFns
    /\ _items \in QueryLists
    /\ _minBufferPx = 0
    /\ _maxBufferPx = 0

NextQuery == \E offset \in QueryOffsets : Query(offset)

\* The index-from-offset walk alone, on every collection and offset.
SpecQuery == InitQuery /\ [][NextQuery]_vars

\* scrollToIndex on every collection of the direct queries, zero-size items
\* included, before and after the viewport has rendered a range.
NextScroll ==
    \/ Attach
    \/ Detach
    \/ OnDataLengthChanged
    \/ \E index \in 0..MaxLen, behavior \in Behaviors : ScrollToIndex(index, behavior)

SpecScroll == InitQuery /\ [][NextScroll]_vars

\* A strategy constructed with its collection and valid thresholds, attached
\* to a viewport of two pixels and scrolled; nothing is rebound.
InitSettle ==
    /\ Fresh
    /\ viewportSize = 2
    /\ _itemSizeFn = "value"
    /\ _items \in SettleLists
    /\ _minBufferPx \in 0..MaxBuf
    /\ _maxBufferPx \in _minBufferPx..MaxBuf

\* The viewport's scroll callback, at any offset.
Scrolled == \E so \in 0..MaxScroll : OnContentScrolled(so)

NextSettle ==
    \/ Attach
    \/ OnDataLengthChanged
    \/ Scrolled

\* Scroll events keep arriving: the viewport calls back on every scroll event
\* of the host.
SpecSettle == InitSettle /\ [][NextSettle]_vars /\ WF_vars(Scrolled)

\* ---------------------------------------------------------------- claims
\* The last operation recomputed the rendered range: it was attached and ran
\* _updateRenderedRange to its end.
Recomputed == \E i \in 1..Len(calls) : calls[i].cmd = "setRenderedRange"

\* The viewport's data length is the length of the strategy's collection (it
\* lags behind between an update and the onDataLengthChanged that follows).
InSync == dataLength = Len(_items)

\* cumulativeSize(items[0..k))
CumulativeSize(k) == GetItemSize(_itemSizeFn, Slice(_items, k))

\* C1: after any recomputation the committed range satisfies
\* 0 <= start <= end <= dataLength.
C1_RangeWithinData ==
    Recomputed =>
        /\ 0 <= renderedRange.start
        /\ renderedRange.start <= renderedRange.end
        /\ renderedRange.end <= dataLength

\* C2: after every recomputation the committed range keeps startBuffer >=
\* minBufferPx unless start = 0, and endBuffer >= minBufferPx unless
\* end = dataLength.
C2_BufferAtLeastMin ==
    Recomputed /\ InSync =>
        /\ \/ renderedRange.start = 0
           \/ scrollOffset - CumulativeSize(renderedRange.start) >= _minBufferPx
        /\ \/ renderedRange.end = dataLength
           \/ CumulativeSize(renderedRange.end) - (scrollOffset + viewportSize)
                  >= _minBufferPx

\* C3: after every recomputation the committed range covers the visible
\* area: the rendered items start at or before the scroll offset and reach
\* the end of the viewport, unless the range ends with the data.
C3_NoEmptySpace ==
    Recomputed /\ InSync =>
        /\ CumulativeSize(renderedRange.start) <= scrollOffset
        /\ \/ renderedRange.end = dataLength
           \/ CumulativeSize(renderedRange.end) >= scrollOffset + viewportSize

\* The viewport commands among the calls of the last operation.
ViewportCalls == SelectSeq(calls, LAMBDA c : c.cmd # "next")

\* C4: a second onContentScrolled() with the scroll offset and everything
\* else unchanged since the first leaves the rendered range as the first
\* left it and delivers no further index value.
C4_ScrolledIdempotent ==
    [][(/\ _viewport = "viewport"
        /\ lastOp.name = "onContentScrolled"
        /\ lastOp'.name = "onContentScrolled"
        /\ scrollOffset' = scrollOffset)
       => (renderedRange' = renderedRange /\ delivered' = <<>>)]_vars

\* C5: updateItemAndBufferSize with maxBufferPx < minBufferPx throws and
\* changes nothing: the stored items, size function and thresholds stay, no
\* viewport command is issued and no index value is published.
C5_RejectedUpdateChangesNothing ==
    [][\A fn \in SizeFns, items \in SmallLists,
          minPx \in -1..SmallBuf, maxPx \in -1..SmallBuf :
          (maxPx < minPx /\ UpdateItemAndBufferSize(fn, items, minPx, maxPx))
          => /\ lastOp'.threw
             /\ UNCHANGED strategyVars
             /\ calls' = <<>>
             /\ delivered' = <<>>]_vars

\* An update was rejected while a viewport was attached.
C5_Witness ==
    /\ lastOp.name = "updateItemAndBufferSize"
    /\ lastOp.threw
    /\ _viewport = "viewport"

\* C6: in every state the stored thresholds satisfy
\* maxBufferPx >= minBufferPx >= 0.
C6_ThresholdsValid == _maxBufferPx >= _minBufferPx /\ _minBufferPx >= 0

\* C7: while no viewport is attached, every operation but attach issues no
\* viewport call and delivers no index value.
C7_DetachedNoOp ==
    [][(_viewport = "null" /\ lastOp'.name # "attach")
       => (calls' = <<>> /\ delivered' = <<>>)]_vars

\* A recomputing operation ran after detach() and did nothing.
C7_Witness ==
    /\ _viewport = "null"
    /\ isStopped
    /\ lastOp.name \in {"onContentScrolled", "onDataLengthChanged",
                        "updateItemAndBufferSize", "scrollToIndex"}
    /\ ~lastOp.threw

\* C8: once detach() has been called the instance never is attached again:
\* no viewport command is issued and no index value delivered afterwards.
C8_DetachTerminal ==
    isStopped => (_viewport = "null" /\ ViewportCalls = <<>> /\ delivered = <<>>)

\* C9: the observer never receives the value it received last, and it
\* receives a value exactly when a recomputation publishes one that is the
\* first or differs from the last one received, the stream not being closed.
C9_Deduplicated ==
    [][/\ delivered' # <<>> =>
            /\ Len(delivered') = 1
            /\ lastKey = <<>> \/ delivered'[1] # lastKey[1]
       /\ \A i \in 1..Len(calls') :
            calls'[i].cmd = "next" =>
               (delivered' = <<calls'[i].a>>
                   <=> (~isStopped /\ (lastKey = <<>> \/ calls'[i].a # lastKey[1])))
       /\ (\A i \in 1..Len(calls') : calls'[i].cmd # "next") => delivered' = <<>>]_vars

\* A recomputation published the value the observer already had, and the
\* open stream delivered nothing.
C9_Witness ==
    /\ Recomputed
    /\ ~isStopped
    /\ delivered = <<>>

\* C10: _getFirstVisibleIndex(offset) is the smallest index i in 0..length
\* whose cumulative size of items[0..i) exceeds the offset, or length if
\* there is none.
C10_SmallestIndexBeyond ==
    lastOp.name = "_getFirstVisibleIndex" =>
        LET beyond == {i \in 0..Len(_items) : CumulativeSize(i) > probe.offset}
        IN  probe.result =
               IF beyond = {} THEN Len(_items)
               ELSE CHOOSE i \in beyond : \A j \in beyond : i <= j

\* A query on heterogeneous sizes that stopped inside the collection.
C10_Witness ==
    /\ lastOp.name = "_getFirstVisibleIndex"
    /\ _itemSizeFn = "value"
    /\ \E i, j \in 1..Len(_items) : _items[i] # _items[j] /\ _items[i] = 0
    /\ probe.offset > 0
    /\ probe.result > 1
    /\ probe.result < Len(_items)

\* Every item of the collection has a positive size.
PositiveSizes == \A i \in 1..Len(_items) : ItemSizeFn(_itemSizeFn, _items[i]) > 0

\* C11 (as stated): _getFirstVisibleIndex(offset) is 0 for every offset <= 0,
\* offset 0 on a non-empty collection included, and the length for every
\* offset >= the total size; stated for items of positive size.
C11_EdgeCases ==
    (lastOp.name = "_getFirstVisibleIndex" /\ PositiveSizes) =>
        /\ probe.offset <= 0 => probe.result = 0
        /\ probe.offset >= CumulativeSize(Len(_items)) => probe.result = Len(_items)

\* C11 (amended): _getFirstVisibleIndex(offset) is 0 for every offset < 0 and
\* the length for every offset >= the total size; at offset 0 it is 0 on the
\* empty collection only, and on a non-empty one the first item is counted.
C11_EdgeCasesExact ==
    lastOp.name = "_getFirstVisibleIndex" =>
        /\ probe.offset < 0 => probe.result = 0
        /\ probe.offset >= CumulativeSize(Len(_items)) => probe.result = Len(_items)
        /\ probe.offset = 0 => (probe.result = 0 <=> _items = <<>>)
        /\ (probe.offset = 0 /\ PositiveSizes /\ _items # <<>>) => probe.result = 1

\* A query at offset 0 on several items of positive size, which counted the
\* first item and stopped.
C11_Witness ==
    /\ lastOp.name = "_getFirstVisibleIndex"
    /\ probe.offset = 0
    /\ Len(_items) > 1
    /\ PositiveSizes
    /\ probe.result = 1

\* The value the last operation passed to _scrolledIndexChange.next, as a set
\* (empty when it published nothing).
Published == {calls[i].a : i \in {j \in 1..Len(calls) : calls[j].cmd = "next"}}

\* All items of the collection have the same size.
UniformSizes ==
    \A i, j \in 1..Len(_items) :
        ItemSizeFn(_itemSizeFn, _items[i]) = ItemSizeFn(_itemSizeFn, _items[j])

\* C12: with items of one size s > 0 and the scroll offset at k * s, k less
\* than the length, a recomputation publishes k as the first visible index
\* (0 at scroll offset 0).
C12_PublishedFirstVisible ==
    (Recomputed /\ InSync /\ UniformSizes /\ PositiveSizes) =>
        \A k \in 0..(Len(_items) - 1) :
            scrollOffset = k * ItemSizeFn(_itemSizeFn, _items[1]) => Published = {k}

\* The offsets the commands cs set as rendered content offset.
ContentOffsets(cs) ==
    {cs[i].a : i \in {j \in 1..Len(cs) : cs[j].cmd = "setRenderedContentOffset"}}

TotalContentSizes(cs) ==
    {cs[i].a : i \in {j \in 1..Len(cs) : cs[j].cmd = "setTotalContentSize"}}

\* C14: with an empty collection and data length 0, a recomputation sets
\* no total content size but 0, commits an empty range (start = end) and
\* publishes first visible index 0, whatever range was rendered before.
C14_EmptyCollection ==
    (Recomputed /\ _items = <<>> /\ dataLength = 0) =>
        /\ TotalContentSizes(calls) \subseteq {0}
        /\ renderedRange.start = renderedRange.end
        /\ Published = {0}

\* The size of the first k items, summed item by item.
RECURSIVE SizeOfFirst(_)
SizeOfFirst(k) ==
    IF k = 0 THEN 0 ELSE SizeOfFirst(k - 1) + ItemSizeFn(_itemSizeFn, _items[k])

\* C15: scrollToIndex(index, behavior) while attached, index in 0..length,
\* issues exactly one viewport command, scrollToOffset(size of the first
\* index items, behavior); it leaves the rendered range and the
\* configuration alone, sets neither content offset nor total content size
\* and publishes no index value.
C15_ScrollToIndex ==
    [][\A index \in 0..MaxLen, behavior \in Behaviors :
          (/\ _viewport = "viewport"
           /\ index <= Len(_items)
           /\ ScrollToIndex(index, behavior))
          => /\ calls' = <<Cmd("scrollToOffset", SizeOfFirst(index), 0, behavior)>>
             /\ UNCHANGED <<renderedRange, strategyVars, _viewport>>
             /\ delivered' = <<>>]_vars

\* A smooth scroll to the end of a rendered collection of different sizes.
C15_Witness ==
    /\ lastOp.name = "scrollToIndex"
    /\ _viewport = "viewport"
    /\ _itemSizeFn = "value"
    /\ Len(_items) = MaxLen
    /\ renderedRange.end > 0
    /\ calls = <<Cmd("scrollToOffset", SizeOfFirst(MaxLen), 0, "smooth")>>
    /\ \E i, j \in 1..Len(_items) : _items[i] > _items[j] /\ _items[j] > 0

\* C16: a recomputation that takes the start-side branch commits a range
\* whose startBuffer is at least maxBufferPx unless its start is 0, and one
\* that takes the end-side branch and grows end commits a range whose
\* endBuffer is at least maxBufferPx unless its end is dataLength.
C16_ExpansionCoversSlack ==
    [][(Recomputed' /\ InSync') =>
          LET startSide == StartBranch(_itemSizeFn', _items', _minBufferPx',
                                       scrollOffset', renderedRange)
              endSide == /\ ~startSide
                         /\ EndBranch(_itemSizeFn', _items', _minBufferPx', scrollOffset',
                                      viewportSize', dataLength', renderedRange)
                         /\ renderedRange'.end > renderedRange.end
          IN  /\ startSide =>
                    \/ renderedRange'.start = 0
                    \/ StartBuffer(_itemSizeFn', _items', scrollOffset',
                                   renderedRange'.start) >= _maxBufferPx'
              /\ endSide =>
                    \/ renderedRange'.end = dataLength'
                    \/ EndBuffer(_itemSizeFn', _items', scrollOffset', viewportSize',
                                 renderedRange'.end) >= _maxBufferPx']_vars

\* C17: once nothing happens any more but onContentScrolled() at an
\* unchanged scroll offset, the rendered range eventually stays as it is: it
\* does not change for ever.
C17_EventuallyStable ==
    <>[][/\ _viewport = "viewport"
         /\ lastOp'.name = "onContentScrolled"
         /\ scrollOffset' = scrollOffset]_vars
    => <>[][renderedRange' = renderedRange]_vars

\* The range rr has adequate buffers on both sides, for items of sizes fn,
\* threshold minPx, scroll offset so, viewport size vs and data length dl.
AdequateFor(fn, items, minPx, so, vs, dl, rr) ==
    /\ \/ rr.start = 0
       \/ so - GetItemSize(fn, Slice(items, rr.start)) >= minPx
    /\ \/ rr.end = dl
       \/ GetItemSize(fn, Slice(items, rr.end)) - (so + vs) >= minPx

\* The rendered range has adequate buffers on both sides in this state.
Adequate ==
    AdequateFor(_itemSizeFn, _items, _minBufferPx, scrollOffset, viewportSize,
                dataLength, renderedRange)

\* C18: a recomputation that reads a range with adequate buffers on both
\* sides commits that very range; one that takes the start-side branch
\* commits the end that branch computes, Min(dataLength, firstVisibleIndex +
\* the items covering viewportSize + minBufferPx), with no end-side growth on
\* top; and one that does not take it leaves start alone or sets it to
\* firstVisibleIndex less the items covering minBufferPx, as the end-side
\* branch does, with no start-side expansion.
C18_SteadyStateNoResize ==
    [][Recomputed' =>
          LET fvi == GetFirstVisibleIndex(_itemSizeFn', _items', scrollOffset')
              startSide ==
                  /\ renderedRange.start # 0
                  /\ scrollOffset' - GetItemSize(_itemSizeFn',
                                                 Slice(_items', renderedRange.start))
                        < _minBufferPx'
          IN  /\ AdequateFor(_itemSizeFn', _items', _minBufferPx', scrollOffset',
                             viewportSize', dataLength', renderedRange)
                    => renderedRange' = renderedRange
              /\ startSide =>
                    /\ renderedRange'.start <= renderedRange.start
                    /\ renderedRange'.end =
                          Min(dataLength',
                              fvi + GetFirstVisibleIndex(_itemSizeFn', _items',
                                                         viewportSize' + _minBufferPx'))
              /\ ~startSide =>
                    renderedRange'.start \in
                          {renderedRange.start,
                           Max(0, fvi - GetFirstVisibleIndex(_itemSizeFn', _items',
                                                             _minBufferPx'))}]_vars

\* A scroll inside the data left a range that starts after the first item and
\* ends before the last, with adequate buffers on both sides.
C18_Witness ==
    /\ lastOp.name = "onContentScrolled"
    /\ Recomputed
    /\ InSync
    /\ renderedRange.start > 0
    /\ renderedRange.end < dataLength
    /\ renderedRange.start < renderedRange.end
    /\ Adequate
    /\ delivered = <<>>

\* C19: a recomputation that reads a range with end = dataLength commits an
\* end that does not exceed dataLength, and, when its start-side branch is
\* not taken, commits the range it read, whatever the scroll offset has
\* become.
C19_BoundaryStable ==
    [][(Recomputed' /\ renderedRange.end = dataLength') =>
          /\ renderedRange'.end <= dataLength'
          /\ \/ /\ renderedRange.start # 0
                /\ scrollOffset' - GetItemSize(_itemSizeFn',
                                               Slice(_items', renderedRange.start))
                      < _minBufferPx'
             \/ renderedRange' = renderedRange]_vars

\* A scroll left the range at the end of the data although less than
\* minBufferPx is rendered below the viewport.
C19_Witness ==
    /\ lastOp.name = "onContentScrolled"
    /\ Recomputed
    /\ InSync
    /\ dataLength > 1
    /\ renderedRange.end = dataLength
    /\ renderedRange.start > 0
    /\ scrollOffset > 0
    /\ EndBuffer(_itemSizeFn, _items, scrollOffset, viewportSize, renderedRange.end)
          < _minBufferPx
    /\ delivered = <<>>

\* C20: the calls of an operation that recomputed are, in this order,
\* setRenderedRange(the committed range), setRenderedContentOffset(the size
\* of the items before the committed start) and the publication; attach,
\* onDataLengthChanged and a successful updateItemAndBufferSize issue
\* setTotalContentSize(the size of all items) before them, and
\* onContentScrolled issues no setTotalContentSize.
C20_OffsetAndOrder ==
    Recomputed =>
        LET withTotal == lastOp.name \in {"attach", "onDataLengthChanged",
                                          "updateItemAndBufferSize"}
            rest == IF withTotal THEN Tail(calls) ELSE calls
        IN  /\ lastOp.name \in {"attach", "onDataLengthChanged",
                                "updateItemAndBufferSize", "onContentScrolled"}
            /\ withTotal =>
                  calls[1] = Cmd("setTotalContentSize", SizeOfFirst(Len(_items)), 0, "")
            /\ lastOp.name = "onContentScrolled" => TotalContentSizes(calls) = {}
            /\ Len(rest) = 3
            /\ rest[1] = Cmd("setRenderedRange", renderedRange.start,
                             renderedRange.end, "")
            /\ rest[2] = Cmd("setRenderedContentOffset",
                             SizeOfFirst(Min(renderedRange.start, Len(_items))), 0, "")
            /\ rest[3].cmd = "next"

\* A recomputation with the total content size moved the start of the range
\* and set a content offset other than 0.
C20_Witness ==
    /\ lastOp.name \in {"onDataLengthChanged", "updateItemAndBufferSize"}
    /\ Recomputed
    /\ InSync
    /\ Len(calls) = 4
    /\ renderedRange.start > 0
    /\ renderedRange.start < renderedRange.end
    /\ ContentOffsets(calls) = {SizeOfFirst(renderedRange.start)}
    /\ 0 \notin ContentOffsets(calls)

====
